---------------------------- MODULE Spec2Model ----------------------------
(***************************************************************************)
(* Encrypted GPS proximity comparison (tfhe-gps-distance).                 *)
(*                                                                         *)
(* Two binaries are modelled: src/main.rs (scaled degrees, delta / 20,     *)
(* polynomial of degree 6, comparison with le) and src/bin/approach2.rs    *)
(* (scaled radians, polynomial of degree 10, comparison with lt).          *)
(*                                                                         *)
(* An FheUint32 is an unsigned 32-bit integer under a key.  TLC integers   *)
(* are 32-bit signed, so a 32-bit unsigned value is kept as two 16-bit     *)
(* limbs <<hi, lo>> and every operation is carried out modulo 2^32 on the  *)
(* limbs.  Plaintext angles are integers in units of 0.0001 degree, the    *)
(* resolution of every coordinate literal in the sources.                  *)
(*                                                                         *)
(* Spec is a run of main of either binary, from the command line to the    *)
(* exit status.  CircuitSpec is compare_distances alone, its two term      *)
(* evaluations taken stage by stage in any order.  AggSpec is a run of     *)
(* main of src/bin/aggregate.rs, which launches both approaches as child   *)
(* processes and tabulates the timing lines they print.                    *)
(***************************************************************************)
EXTENDS Integers, Sequences, FiniteSets, TLC

VARIABLES args, bin, points, pc, client_key, client_data,
          x_to_z_value, y_to_z_value, closer_x, is_x_closer,
          error, exit_status, stdout, stage, locals, ops,
          children, out1, out2, table

\* The variables of a run of main.
main_vars == <<args, bin, points, pc, client_key, client_data,
               x_to_z_value, y_to_z_value, closer_x, is_x_closer,
               error, exit_status, stdout>>

\* The variables of a stepwise evaluation of the two terms.
circuit_vars == <<stage, locals, ops>>

\* The variables of main of aggregate: the children run so far, their
\* outputs and the table printed.
agg_vars == <<children, out1, out2, table>>

vars == <<main_vars, circuit_vars, agg_vars>>

SCALE_FACTOR == 1000000

\* Number of distinct key pairs generate_keys may return.
NumKeys == 2

Keys == 1 .. NumKeys

None == "none"

-----------------------------------------------------------------------------
(* Unsigned 32-bit arithmetic on 16-bit limbs.                             *)

Limb == 65536

\* A u32 literal (below 2^31) as limbs.
U32(n) == <<n \div Limb, n % Limb>>

\* Wrapping addition.
Add32(a, b) ==
    LET lo == a[2] + b[2]
        hi == a[1] + b[1] + (lo \div Limb)
    IN  <<hi % Limb, lo % Limb>>

\* Wrapping subtraction.
Sub32(a, b) ==
    LET lo == a[2] - b[2]
        borrow == IF lo < 0 THEN 1 ELSE 0
        hi == a[1] - b[1] - borrow
    IN  <<(hi + Limb) % Limb, (lo + Limb) % Limb>>

Lt32(a, b) == a[1] < b[1] \/ (a[1] = b[1] /\ a[2] < b[2])

Le32(a, b) == a[1] < b[1] \/ (a[1] = b[1] /\ a[2] <= b[2])

Min32(a, b) == IF Le32(a, b) THEN a ELSE b

\* Exact product of two 16-bit limbs, as limbs.
Mul16(x, y) ==
    LET p1 == x * (y \div 256)
        p0 == x * (y % 256)
        low == (p1 % 256) * 256 + p0
    IN  <<(p1 \div 256) + (low \div Limb), low % Limb>>

\* Wrapping multiplication: the low 32 bits of the product.
Mul32(a, b) ==
    LET ll == Mul16(a[2], b[2])
        hl == Mul16(a[1], b[2])
        lh == Mul16(a[2], b[1])
    IN  <<(ll[1] + hl[2] + lh[2]) % Limb, ll[2]>>

\* TRUE iff the exact product does not fit 32 bits.
MulWraps(a, b) ==
    LET ll == Mul16(a[2], b[2])
        hl == Mul16(a[1], b[2])
        lh == Mul16(a[2], b[1])
    IN  \/ (a[1] > 0 /\ b[1] > 0)
        \/ hl[1] > 0
        \/ lh[1] > 0
        \/ ll[1] + hl[2] + lh[2] >= Limb

\* Truncating division by a public constant 0 < d < 2^31.
Div32(a, d) ==
    LET h  == a[1] * 32768 + (a[2] \div 2)
        b  == a[2] % 2
        qh == h \div d
        rh == h % d
        e  == IF rh >= d - rh - b THEN 1 ELSE 0
        t  == 2 * (qh % Limb) + e
    IN  <<2 * (qh \div Limb) + (t \div Limb), t % Limb>>

-----------------------------------------------------------------------------
(* Client-side f64 computations.  An angle k stands for the f64 literal    *)
(* k / 10000 degrees.  The tables hold, for every angle of the model's     *)
(* inputs, the integer part of the f64 expression the source evaluates     *)
(* (IEEE-754 double arithmetic, libm sin and cos).                         *)

\* A cast that keeps the magnitude of a negative value.
F64ToU32_magnitude(x) == IF x < 0 THEN -x ELSE x

\* `x as u32`: a saturating cast; negative values become 0.
F64ToU32(x) == IF x < 0 THEN 0 ELSE x

\* Integer part of degrees * SCALE_FACTOR (exact for these inputs).
DegreesScaled(k) == k * 100

\* Integer part of (cos(lat) + 1) * SCALE_FACTOR / 2, indexed by |lat|.
CosTable(k) ==
    CASE k = 0 -> 1000000 [] k = 213069 -> 965823 [] k = 229068 -> 960569
      [] k = 300444 -> 932818 [] k = 338688 -> 915157 [] k = 339249 -> 914884
      [] k = 340522 -> 914263 [] k = 346037 -> 911549 [] k = 356762 -> 906162
      [] k = 407128 -> 878994 [] k = 449995 -> 853556 [] k = 449996 -> 853555
      [] k = 449997 -> 853555 [] k = 449998 -> 853554 [] k = 449999 -> 853554
      [] k = 450000 -> 853553 [] k = 450001 -> 853552 [] k = 450002 -> 853552
      [] k = 450003 -> 853551 [] k = 450004 -> 853550 [] k = 450005 -> 853550
      [] k = 450006 -> 853549 [] k = 450007 -> 853549 [] k = 460037 -> 847305
      [] k = 473769 -> 838586 [] k = 475596 -> 837411 [] k = 515074 -> 811206
      [] k = 601699 -> 748714 [] k = 899999 -> 500000 [] k = 900000 -> 500000

\* Integer part of (sin(lat) + 1) * SCALE_FACTOR / 2.
SinTable(k) ==
    CASE k = -900000 -> 0 [] k = -899999 -> 0 [] k = -346037 -> 216051
      [] k = -339249 -> 220947 [] k = -338688 -> 221353 [] k = -229068 -> 305383
      [] k = 0 -> 500000 [] k = 213069 -> 681681 [] k = 300444 -> 750335
      [] k = 340522 -> 779973 [] k = 356762 -> 791601 [] k = 407128 -> 826133
      [] k = 449995 -> 853550 [] k = 449996 -> 853550 [] k = 449997 -> 853551
      [] k = 449998 -> 853552 [] k = 449999 -> 853552 [] k = 450000 -> 853553
      [] k = 450001 -> 853554 [] k = 450002 -> 853554 [] k = 450003 -> 853555
      [] k = 450004 -> 853555 [] k = 450005 -> 853556 [] k = 450006 -> 853557
      [] k = 450007 -> 853557 [] k = 460037 -> 859692 [] k = 473769 -> 867912
      [] k = 475596 -> 868989 [] k = 515074 -> 891344 [] k = 601699 -> 933752
      [] k = 899999 -> 999999 [] k = 900000 -> 1000000

\* Integer part of |angle| * PI / 180 * SCALE_FACTOR.
RadTable(k) ==
    CASE k = 0 -> 0 [] k = 1 -> 1 [] k = 2 -> 3
      [] k = 3 -> 5 [] k = 4 -> 6 [] k = 5 -> 8
      [] k = 6 -> 10 [] k = 1278 -> 2230 [] k = 75886 -> 132446
      [] k = 85413 -> 149073 [] k = 85414 -> 149075 [] k = 85415 -> 149077
      [] k = 85416 -> 149079 [] k = 85417 -> 149080 [] k = 85418 -> 149082
      [] k = 85419 -> 149084 [] k = 85420 -> 149086 [] k = 85421 -> 149087
      [] k = 85422 -> 149089 [] k = 85423 -> 149091 [] k = 85424 -> 149093
      [] k = 85425 -> 149094 [] k = 89511 -> 156226 [] k = 213069 -> 371875
      [] k = 229068 -> 399799 [] k = 249384 -> 435257 [] k = 300444 -> 524373
      [] k = 312357 -> 545165 [] k = 338688 -> 591122 [] k = 339249 -> 592101
      [] k = 340522 -> 594323 [] k = 346037 -> 603948 [] k = 356762 -> 622667
      [] k = 407128 -> 710572 [] k = 431729 -> 753509 [] k = 449995 -> 785389
      [] k = 449996 -> 785391 [] k = 449997 -> 785392 [] k = 449998 -> 785394
      [] k = 449999 -> 785396 [] k = 450000 -> 785398 [] k = 450001 -> 785399
      [] k = 450002 -> 785401 [] k = 450003 -> 785403 [] k = 450004 -> 785405
      [] k = 450005 -> 785406 [] k = 450006 -> 785408 [] k = 450007 -> 785410
      [] k = 460037 -> 802916 [] k = 473769 -> 826882 [] k = 475596 -> 830071
      [] k = 515074 -> 898973 [] k = 583816 -> 1018951 [] k = 601699 -> 1050162
      [] k = 740060 -> 1291648 [] k = 784678 -> 1369521 [] k = 899999 -> 1570794
      [] k = 900000 -> 1570796 [] k = 1038198 -> 1811997 [] k = 1164074 -> 2031692
      [] k = 1182437 -> 2063741 [] k = 1396503 -> 2437357 [] k = 1512093 -> 2639100
      [] k = 1578583 -> 2755147 [] k = 1800000 -> 3141592

Abs(k) == IF k < 0 THEN 0 - k ELSE k

CosScaled(k) == CosTable(Abs(k))

SinScaled(k) == SinTable(k)

RadiansScaled(k) == IF k < 0 THEN 0 - RadTable(0 - k) ELSE RadTable(k)

-----------------------------------------------------------------------------
(* Ciphertexts and the homomorphic operations used by the circuits.        *)

\* An encryption whose noise reaches the plaintext: the key is added to
\* the encrypted value.
Encrypt_noisy(v, key) == [key |-> key, val |-> Add32(v, U32(key))]

Encrypt(v, key) == [key |-> key, val |-> v]

Garbage == "garbage"

Decrypt(ct, key) == IF ct.key = key THEN ct.val ELSE Garbage

FheAdd(a, b) == [key |-> a.key, val |-> Add32(a.val, b.val)]

FheSub(a, b) == [key |-> a.key, val |-> Sub32(a.val, b.val)]

FheMul(a, b) == [key |-> a.key, val |-> Mul32(a.val, b.val)]

FheMin(a, b) == [key |-> a.key, val |-> Min32(a.val, b.val)]

FheLe(a, b) == [key |-> a.key, val |-> Le32(a.val, b.val)]

FheLt(a, b) == [key |-> a.key, val |-> Lt32(a.val, b.val)]

\* scalar - ciphertext
FheScalarSub(n, a) == [key |-> a.key, val |-> Sub32(U32(n), a.val)]

\* ciphertext * scalar
FheMulScalar(a, n) == [key |-> a.key, val |-> Mul32(a.val, U32(n))]

\* ciphertext / scalar
FheDivScalar(a, n) == [key |-> a.key, val |-> Div32(a.val, n)]

-----------------------------------------------------------------------------
(* src/main.rs                                                             *)

precompute_client_data(p, key) ==
    LET normalized_lon == IF p.lon < 0 THEN p.lon + 3600000 ELSE p.lon
        scaled_lat == F64ToU32(DegreesScaled(p.lat))
        scaled_lon == F64ToU32(DegreesScaled(normalized_lon))
        scaled_sin_lat == F64ToU32(SinScaled(p.lat))
        scaled_cos_lat == F64ToU32(CosScaled(p.lat))
    IN  [name    |-> p.name,
         lat     |-> Encrypt(U32(scaled_lat), key),
         lon     |-> Encrypt(U32(scaled_lon), key),
         sin_lat |-> Encrypt(U32(scaled_sin_lat), key),
         cos_lat |-> Encrypt(U32(scaled_cos_lat), key)]

\* A single modular subtraction instead of the minimum of both.
delta_lat_single(point1, point2) == FheSub(point1.lat, point2.lat)

\* Absolute difference of two latitudes: min(p - q, q - p).
delta_lat_main(point1, point2) ==
    FheMin(FheSub(point1.lat, point2.lat), FheSub(point2.lat, point1.lat))

raw_lon_diff_main(point1, point2) ==
    FheMin(FheSub(point1.lon, point2.lon), FheSub(point2.lon, point1.lon))

\* Shorter way around: min(raw, 360 * SCALE_FACTOR - raw).
delta_lon_main(point1, point2) ==
    LET raw_lon_diff == raw_lon_diff_main(point1, point2)
        full_circle == 360 * SCALE_FACTOR
        wrapped_lon_diff == FheScalarSub(full_circle, raw_lon_diff)
    IN  FheMin(raw_lon_diff, wrapped_lon_diff)

\* The divisor of the plaintext approximation (norm_factor = 16.0).
norm_factor_16 == 16

\* let norm_factor = 20_u32
norm_factor == 20

(* The locals of calculate_haversine_distance_squared, statement by        *)
(* statement: each operator extends the record l of the locals computed    *)
(* so far with the locals of the next statements.                          *)

\* The cosine sum reads the sine of the first point.
hav_deltas_sin(point1, point2) ==
    [delta_lat |-> delta_lat_main(point1, point2),
     delta_lon |-> delta_lon_main(point1, point2),
     cos_sum   |-> FheAdd(point1.sin_lat, point2.cos_lat)]

\* delta_lat, delta_lon, cos_sum
hav_deltas(point1, point2) ==
    [delta_lat |-> delta_lat_main(point1, point2),
     delta_lon |-> delta_lon_main(point1, point2),
     cos_sum   |-> FheAdd(point1.cos_lat, point2.cos_lat)]

\* lat_scaled = delta_lat / norm_factor, lon_scaled = delta_lon / norm_factor
hav_scaled(l) ==
    l @@ [lat_scaled |-> FheDivScalar(l.delta_lat, norm_factor),
          lon_scaled |-> FheDivScalar(l.delta_lon, norm_factor)]

hav_squared(l) ==
    l @@ [lat_squared |-> FheMul(l.lat_scaled, l.lat_scaled),
          lon_squared |-> FheMul(l.lon_scaled, l.lon_scaled)]

hav_power4(l) ==
    l @@ [lat_power4 |-> FheMul(l.lat_squared, l.lat_squared),
          lon_power4 |-> FheMul(l.lon_squared, l.lon_squared)]

hav_power6(l) ==
    l @@ [lat_power6 |-> FheMul(l.lat_power4, l.lat_squared),
          lon_power6 |-> FheMul(l.lon_power4, l.lon_squared)]

\* x4_factor = 3 * 2, x6_factor = 15 * 2
hav_corrections(l) ==
    LET x4_factor == 3 * 2
        x6_factor == 15 * 2
    IN  l @@ [lat_correction1 |->
                  FheDivScalar(FheMulScalar(l.lat_power4, 2), x4_factor),
              lat_correction2 |->
                  FheDivScalar(FheMulScalar(l.lat_power6, 2), x6_factor),
              lon_correction1 |->
                  FheDivScalar(FheMulScalar(l.lon_power4, 2), x4_factor),
              lon_correction2 |->
                  FheDivScalar(FheMulScalar(l.lon_power6, 2), x6_factor)]

\* x^2 - correction1 + correction2, evaluated left to right.
hav_terms(l) ==
    l @@ [lat_term |-> FheAdd(FheSub(l.lat_squared, l.lat_correction1),
                              l.lat_correction2),
          lon_term |-> FheAdd(FheSub(l.lon_squared, l.lon_correction1),
                              l.lon_correction2)]

\* avg_cos = cos_sum / (2 * cosine_scale)
hav_avg_cos(l) ==
    LET cosine_scale == 4
    IN  l @@ [avg_cos |-> FheDivScalar(l.cos_sum, 2 * cosine_scale)]

\* weighted_lon = lon_term * avg_cos / (SCALE_FACTOR / lon_weight_scale)
hav_weighted(l) ==
    LET lon_weight_scale == 4
    IN  l @@ [weighted_lon |->
                  FheDivScalar(FheMul(l.lon_term, l.avg_cos),
                               SCALE_FACTOR \div lon_weight_scale)]

\* result = lat_term + weighted_lon
hav_result(l) == l @@ [result |-> FheAdd(l.lat_term, l.weighted_lon)]

\* Every local of calculate_haversine_distance_squared.
haversine_locals(point1, point2) ==
    hav_result(hav_weighted(hav_avg_cos(hav_terms(hav_corrections(
        hav_power6(hav_power4(hav_squared(hav_scaled(
            hav_deltas(point1, point2))))))))))

calculate_haversine_distance_squared(point1, point2) ==
    haversine_locals(point1, point2).result

\* x_to_z_value.le(&y_to_z_value)
compare_le(x_value, y_value) == FheLe(x_value, y_value)

\* The two terms and the encrypted comparison of compare_distances.
compare_terms(x_value, y_value) ==
    [x_to_z_value |-> x_value, y_to_z_value |-> y_value,
     result |-> compare_le(x_value, y_value)]

compare_distances(point_x, point_y, reference_z) ==
    compare_terms(calculate_haversine_distance_squared(point_x, reference_z),
                  calculate_haversine_distance_squared(point_y, reference_z))

-----------------------------------------------------------------------------
(* src/bin/approach2.rs                                                    *)

precompute_client_data_a2(p, key) ==
    LET scaled_lat_rad == F64ToU32(RadiansScaled(p.lat))
        scaled_lon_rad == F64ToU32(RadiansScaled(p.lon))
        scaled_sin_lat == F64ToU32(SinScaled(p.lat))
        scaled_cos_lat == F64ToU32(CosScaled(p.lat))
    IN  [name    |-> p.name,
         lat     |-> Encrypt(U32(scaled_lat_rad), key),
         lon     |-> Encrypt(U32(scaled_lon_rad), key),
         sin_lat |-> Encrypt(U32(scaled_sin_lat), key),
         cos_lat |-> Encrypt(U32(scaled_cos_lat), key)]

\* A single modular subtraction.
delta_lat_a2(p1, p2) == FheSub(p1.lat, p2.lat)

delta_lon_a2(p1, p2) ==
    LET delta_lon_raw == FheSub(p1.lon, p2.lon)
        delta_lon_alt == FheSub(p2.lon, p1.lon)
    IN  FheMin(delta_lon_raw, delta_lon_alt)

\* x^2/4 - x^4/192 + x^6/23040 - x^8/5160960 + x^10/1486356480,
\* evaluated left to right.
sin2_half(x2, x4, x6, x8, x10) ==
    FheAdd(FheSub(FheAdd(FheSub(FheDivScalar(x2, 4),
                                FheDivScalar(x4, 192)),
                         FheDivScalar(x6, 23040)),
                  FheDivScalar(x8, 5160960)),
           FheDivScalar(x10, 1486356480))

(* The locals of compute_a_term, statement by statement.                   *)

a2_deltas(p1, p2) ==
    [delta_lat |-> delta_lat_a2(p1, p2),
     delta_lon |-> delta_lon_a2(p1, p2),
     cos_prod  |-> FheDivScalar(FheMul(p1.cos_lat, p2.cos_lat),
                                SCALE_FACTOR)]

\* The ladder starts from the delta itself instead of its square.
a2_power2_odd(l) ==
    l @@ [lat2 |-> l.delta_lat, lon2 |-> FheMul(l.delta_lon, l.delta_lon)]

a2_power2(l) ==
    l @@ [lat2 |-> FheMul(l.delta_lat, l.delta_lat),
          lon2 |-> FheMul(l.delta_lon, l.delta_lon)]

a2_power4(l) ==
    l @@ [lat4 |-> FheMul(l.lat2, l.lat2), lon4 |-> FheMul(l.lon2, l.lon2)]

a2_power6(l) ==
    l @@ [lat6 |-> FheMul(l.lat4, l.lat2), lon6 |-> FheMul(l.lon4, l.lon2)]

a2_power8(l) ==
    l @@ [lat8 |-> FheMul(l.lat6, l.lat2), lon8 |-> FheMul(l.lon6, l.lon2)]

a2_power10(l) ==
    l @@ [lat10 |-> FheMul(l.lat8, l.lat2), lon10 |-> FheMul(l.lon8, l.lon2)]

a2_sin2_half(l) ==
    l @@ [sin2_half_dlat |->
              sin2_half(l.lat2, l.lat4, l.lat6, l.lat8, l.lat10),
          sin2_half_dlon |->
              sin2_half(l.lon2, l.lon4, l.lon6, l.lon8, l.lon10)]

\* a = sin2_half_dlat + cos_prod * sin2_half_dlon
a2_combine(l) ==
    l @@ [a |-> FheAdd(l.sin2_half_dlat,
                       FheMul(l.cos_prod, l.sin2_half_dlon))]

\* Every local of compute_a_term.
a_term_locals(p1, p2) ==
    a2_combine(a2_sin2_half(a2_power10(a2_power8(a2_power6(a2_power4(
        a2_power2(a2_deltas(p1, p2))))))))

compute_a_term(p1, p2) == a_term_locals(p1, p2).a

\* a_xz.lt(&a_yz)
compare_lt(a_xz, a_yz) == FheLt(a_xz, a_yz)

\* The two terms and the encrypted comparison of compare_distances.
compare_terms_a2(a_xz, a_yz) ==
    [x_to_z_value |-> a_xz, y_to_z_value |-> a_yz,
     result |-> compare_lt(a_xz, a_yz)]

compare_distances_a2(px, py, pz) ==
    compare_terms_a2(compute_a_term(px, pz), compute_a_term(py, pz))

-----------------------------------------------------------------------------
(* Input points: the triples <<X, Y, Z>> of the binaries' defaults and of  *)
(* the test suites, and two families of near-coincident points.            *)

Pt(n, la, lo) == [name |-> n, lat |-> la, lon |-> lo]

Basel == Pt("Basel", 475596, 75886)

Lugano == Pt("Lugano", 460037, 89511)

Zurich == Pt("Zurich", 473769, 85417)

Tokyo == Pt("Tokyo", 356762, 1396503)

NewYork == Pt("NewYork", 407128, -740060)

London == Pt("London", 515074, -1278)

Hawaii == Pt("Hawaii", 213069, -1578583)

test_swiss_cities == <<Basel, Lugano, Zurich>>

test_far_points == <<Tokyo, NewYork, London>>

test_near_points ==
    <<Pt("Point1", 473769, 85418), Pt("Point2", 473769, 85417),
      Pt("Reference", 473769, 85419)>>

test_equator_points ==
    <<Pt("Quito", 0, -784678), Pt("Singapore", 0, 1038198),
      Pt("Reference", 0, 0)>>

test_pole_points ==
    <<Pt("NorthPole", 900000, 0), Pt("SouthPole", -900000, 0),
      Pt("Reference", 0, 0)>>

test_date_line_crossing == <<Tokyo, Hawaii, Pt("Reference", 0, 1800000)>>

test_extreme_longitude_diff ==
    <<Pt("Sydney", -338688, 1512093), Pt("BuenosAires", -346037, -583816),
      Pt("Reference", 0, 0)>>

test_small_latitude_diff ==
    <<Pt("Point1", 450000, 0), Pt("Point2", 450005, 0),
      Pt("Reference", 450001, 0)>>

test_small_longitude_diff ==
    <<Pt("Point1", 0, 0), Pt("Point2", 0, 5), Pt("Reference", 0, 1)>>

test_same_latitude_opposite_longitude ==
    <<Pt("NewYork", 407128, -740060), Pt("Beijing", 407128, 1164074),
      Pt("Reference", 407128, 0)>>

test_same_longitude_opposite_latitude ==
    <<Pt("Helsinki", 601699, 249384), Pt("CapeTown", -339249, 249384),
      Pt("Reference", 0, 249384)>>

test_negative_latitude ==
    <<Pt("Rio", -229068, -431729), Pt("Cairo", 300444, 312357),
      Pt("Reference", 0, 0)>>

test_negative_longitude ==
    <<Pt("LosAngeles", 340522, -1182437), Tokyo, Pt("Reference", 0, 0)>>

test_extreme_latitude ==
    <<Pt("NearNorthPole", 899999, 0), Pt("NearSouthPole", -899999, 0),
      Pt("Reference", 0, 0)>>

\* The Swiss latitudes on one meridian.
SwissMeridian ==
    <<Pt("Basel", 475596, 85417), Pt("Lugano", 460037, 85417), Zurich>>

TestInputs ==
    {test_swiss_cities, test_far_points, test_near_points,
     test_equator_points, test_pole_points, test_date_line_crossing,
     test_extreme_longitude_diff, test_small_latitude_diff,
     test_small_longitude_diff, test_same_latitude_opposite_longitude,
     test_same_longitude_opposite_latitude, test_negative_latitude,
     test_negative_longitude, test_extreme_latitude, SwissMeridian}

\* Offsets from the reference, in units of 0.0001 degree.
NearOffset == {-1, 1}

FarOffset == {-5, -4, -3, -2, 2, 3, 4, 5}

PrecisionLats == {0, 407128, 473769}

PrecisionLons == {0, 85419}

\* X, Y, Z on one parallel; X is 0.0001 degree from Z, Y is further.
SameLatitudeInputs ==
    {<<Pt("Point1", la, z + dx), Pt("Point2", la, z + dy),
       Pt("Reference", la, z)>> :
        la \in PrecisionLats, z \in PrecisionLons,
        dx \in NearOffset, dy \in FarOffset}

\* X, Y, Z on one meridian; X is 0.0001 degree from Z, Y is further.
SameLongitudeInputs ==
    {<<Pt("Point1", 450001 + dx, 0), Pt("Point2", 450001 + dy, 0),
       Pt("Reference", 450001, 0)>> :
        dx \in NearOffset, dy \in FarOffset}

\* X and Y given as the same point on the command line.
SamePointInputs == {<<Basel, Basel, Zurich>>, <<Tokyo, Tokyo, London>>}

Inputs ==
    TestInputs \cup SameLatitudeInputs \cup SameLongitudeInputs
        \cup SamePointInputs

-----------------------------------------------------------------------------
(* The command line.  count is the number of positional arguments          *)
(* (args.len() - 1); with nine of them, tokens is the triple they spell    *)
(* and bad is the index of the first coordinate token that does not parse  *)
(* as an f64 (0 if all six parse).                                         *)

\* Largest number of positional arguments considered.
MaxArgs == 10

CoordinateTokens == 6

default_points == test_swiss_cities

CommandLines ==
    {[count |-> 9, tokens |-> t, bad |-> 0] : t \in Inputs}
        \cup {[count |-> 9, tokens |-> default_points, bad |-> b] :
                b \in 1 .. CoordinateTokens}
        \cup {[count |-> n, tokens |-> <<>>, bad |-> 0] :
                n \in (0 .. MaxArgs) \ {9}}

\* No table has been printed.
NoTable == [printed |-> FALSE]

\* No error has been returned.
NoError == [kind |-> "none"]

\* Number of try_encrypt calls in precompute_client_data.
TryEncryptCalls == 4

\* The result line of each binary.
ResultLine(b, closer) ==
    IF b = "main"
    THEN (IF closer THEN "Point X is closer to point Z."
          ELSE "Point Y is closer to point Z.")
    ELSE (IF closer THEN "Result (FHE): X is closer to Z than Y"
          ELSE "Result (FHE): X is further to Z than Y")

-----------------------------------------------------------------------------
(* The two binaries as state machines.  pc is the position in main.        *)

Init ==
    /\ bin \in {"main", "approach2"}
    /\ args \in CommandLines
    /\ points = None
    /\ pc = "start"
    /\ client_key = None
    /\ client_data = <<>>
    /\ x_to_z_value = None
    /\ y_to_z_value = None
    /\ closer_x = None
    /\ is_x_closer = None
    /\ error = NoError
    /\ exit_status = None
    /\ stdout = None
    /\ stage = None
    /\ locals = None
    /\ ops = None
    /\ children = <<>>
    /\ out1 = None
    /\ out2 = None
    /\ table = NoTable

\* A parse whose error is recorded but returned only later: main goes on
\* with the tokens it was given.
ParseArgs_deferred ==
    /\ pc = "start"
    /\ points' = IF args.count = 9 THEN args.tokens ELSE default_points
    /\ error' = IF args.count = 9 /\ args.bad # 0
                THEN [kind |-> "parse", token |-> args.bad]
                ELSE error
    /\ pc' = "parsed"
    /\ UNCHANGED <<args, bin, client_key, client_data, x_to_z_value,
                   y_to_z_value, closer_x, is_x_closer, exit_status, stdout,
                   circuit_vars, agg_vars>>

\* let points = if args.len() == 10 { parse()? ... } else { defaults }
ParseArgs ==
    /\ pc = "start"
    /\ IF args.count = 9
       THEN IF args.bad = 0
            THEN /\ points' = args.tokens
                 /\ pc' = "parsed"
                 /\ UNCHANGED <<error, exit_status>>
            ELSE /\ error' = [kind |-> "parse", token |-> args.bad]
                 /\ exit_status' = 1
                 /\ pc' = "failed"
                 /\ UNCHANGED points
       ELSE /\ points' = default_points
            /\ pc' = "parsed"
            /\ UNCHANGED <<error, exit_status>>
    /\ UNCHANGED <<args, bin, client_key, client_data, x_to_z_value,
                   y_to_z_value, closer_x, is_x_closer, stdout,
                   circuit_vars, agg_vars>>

\* generate_keys + set_server_key.
GenerateKeys ==
    /\ pc = "parsed"
    /\ \E k \in Keys : client_key' = k
    /\ pc' = "keys"
    /\ UNCHANGED <<args, bin, points, client_data, x_to_z_value,
                   y_to_z_value, closer_x, is_x_closer, error, exit_status,
                   stdout, circuit_vars, agg_vars>>

\* A call of precompute_client_data whose error is recorded but not
\* returned: the point is encoded and main goes on.
Precompute_unchecked(encoded, failed) ==
    /\ pc = "keys"
    /\ Len(client_data) < 3
    /\ client_data' = Append(client_data, encoded)
    /\ error' = IF failed = 0 THEN error
                ELSE [kind |-> "encrypt",
                      point |-> Len(client_data) + 1, call |-> failed]
    /\ UNCHANGED <<args, bin, points, pc, client_key, x_to_z_value,
                   y_to_z_value, closer_x, is_x_closer, exit_status, stdout,
                   circuit_vars, agg_vars>>

\* One call of precompute_client_data(..)? in main: the next point is
\* encoded, or the call of try_encrypt numbered failed returns an error,
\* which main returns.
Precompute(encoded, failed) ==
    /\ pc = "keys"
    /\ Len(client_data) < 3
    /\ IF failed = 0
       THEN /\ client_data' = Append(client_data, encoded)
            /\ UNCHANGED <<pc, error, exit_status>>
       ELSE /\ error' = [kind |-> "encrypt",
                         point |-> Len(client_data) + 1, call |-> failed]
            /\ exit_status' = 1
            /\ pc' = "failed"
            /\ UNCHANGED client_data
    /\ UNCHANGED <<args, bin, points, client_key, x_to_z_value,
                   y_to_z_value, closer_x, is_x_closer, stdout,
                   circuit_vars, agg_vars>>

\* main.rs: the three precompute_client_data calls, X then Y then Z.
MainPrecompute ==
    /\ bin = "main"
    /\ pc = "keys"
    /\ Len(client_data) < 3
    /\ \E failed \in 0 .. TryEncryptCalls :
           Precompute(precompute_client_data(points[Len(client_data) + 1],
                                             client_key), failed)

\* The server part of main: the two terms and the encrypted comparison.
Compare(r) ==
    /\ pc = "keys"
    /\ Len(client_data) = 3
    /\ x_to_z_value' = r.x_to_z_value
    /\ y_to_z_value' = r.y_to_z_value
    /\ closer_x' = r.result
    /\ pc' = "compared"
    /\ UNCHANGED <<args, bin, points, client_key, client_data, is_x_closer,
                   error, exit_status, stdout, circuit_vars, agg_vars>>

\* main.rs: compare_distances(&x, &y, &z, &client_key).
MainCompare ==
    /\ bin = "main"
    /\ pc = "keys"
    /\ Len(client_data) = 3
    /\ \E r \in {compare_distances(client_data[1], client_data[2],
                                   client_data[3])} : Compare(r)

\* approach2.rs: the three precompute_client_data calls.
A2Precompute ==
    /\ bin = "approach2"
    /\ pc = "keys"
    /\ Len(client_data) < 3
    /\ \E failed \in 0 .. TryEncryptCalls :
           Precompute(precompute_client_data_a2(
                          points[Len(client_data) + 1], client_key), failed)

\* approach2.rs: compare_distances(&x, &y, &z).
A2Compare ==
    /\ bin = "approach2"
    /\ pc = "keys"
    /\ Len(client_data) = 3
    /\ \E r \in {compare_distances_a2(client_data[1], client_data[2],
                                      client_data[3])} : Compare(r)

\* closer_x.decrypt(&client_key), the result line, and Ok(()).
DecryptResult ==
    /\ pc = "compared"
    /\ \E closer \in {Decrypt(closer_x, client_key)} :
           /\ is_x_closer' = closer
           /\ stdout' = ResultLine(bin, closer)
    /\ exit_status' = 0
    /\ pc' = "done"
    /\ UNCHANGED <<args, bin, points, client_key, client_data, x_to_z_value,
                   y_to_z_value, closer_x, error, circuit_vars, agg_vars>>

Next ==
    \/ ParseArgs
    \/ GenerateKeys
    \/ MainPrecompute
    \/ MainCompare
    \/ A2Precompute
    \/ A2Compare
    \/ DecryptResult

Spec == Init /\ [][Next]_vars

-----------------------------------------------------------------------------
(* compare_distances as two stepwise evaluations.  The term of (X, Z) and  *)
(* the term of (Y, Z) are each computed stage by stage (the groups of      *)
(* statements hav_deltas .. hav_result, a2_deltas .. a2_combine); the      *)
(* stages of the two evaluations may be taken in any order.                *)

Evaluations == {"xz", "yz"}

\* Index in client_data of the first operand of an evaluation; the second
\* operand is the reference point, client_data[3].
Operand(e) == IF e = "xz" THEN 1 ELSE 2

StageCount(b) == IF b = "main" THEN 10 ELSE 8

\* The locals after stage k, from the locals l before it.
ApplyStage(b, k, l, p1, p2) ==
    IF b = "main"
    THEN CASE k = 1 -> hav_deltas(p1, p2)
           [] k = 2 -> hav_scaled(l)
           [] k = 3 -> hav_squared(l)
           [] k = 4 -> hav_power4(l)
           [] k = 5 -> hav_power6(l)
           [] k = 6 -> hav_corrections(l)
           [] k = 7 -> hav_terms(l)
           [] k = 8 -> hav_avg_cos(l)
           [] k = 9 -> hav_weighted(l)
           [] k = 10 -> hav_result(l)
    ELSE CASE k = 1 -> a2_deltas(p1, p2)
           [] k = 2 -> a2_power2(l)
           [] k = 3 -> a2_power4(l)
           [] k = 4 -> a2_power6(l)
           [] k = 5 -> a2_power8(l)
           [] k = 6 -> a2_power10(l)
           [] k = 7 -> a2_sin2_half(l)
           [] k = 8 -> a2_combine(l)

\* The value an evaluation returns.
Term(b, l) == IF b = "main" THEN l.result ELSE l.a

\* One ciphertext operation: its kind and the operands it reads (a public
\* constant is written as its literal).
Op(kind, a, b) == <<kind, a, b>>

\* The ciphertext operations of the stages of
\* calculate_haversine_distance_squared.
hav_ops(k) ==
    CASE k = 1 ->
           <<Op("sub", "point1.lat", "point2.lat"),
             Op("sub", "point2.lat", "point1.lat"),
             Op("min", "point1.lat - point2.lat", "point2.lat - point1.lat"),
             Op("sub", "point1.lon", "point2.lon"),
             Op("sub", "point2.lon", "point1.lon"),
             Op("min", "point1.lon - point2.lon", "point2.lon - point1.lon"),
             Op("scalar_sub", "360000000", "raw_lon_diff"),
             Op("min", "raw_lon_diff", "wrapped_lon_diff"),
             Op("add", "point1.cos_lat", "point2.cos_lat")>>
      [] k = 2 ->
           <<Op("scalar_div", "delta_lat", "20"),
             Op("scalar_div", "delta_lon", "20")>>
      [] k = 3 ->
           <<Op("mul", "lat_scaled", "lat_scaled"),
             Op("mul", "lon_scaled", "lon_scaled")>>
      [] k = 4 ->
           <<Op("mul", "lat_squared", "lat_squared"),
             Op("mul", "lon_squared", "lon_squared")>>
      [] k = 5 ->
           <<Op("mul", "lat_power4", "lat_squared"),
             Op("mul", "lon_power4", "lon_squared")>>
      [] k = 6 ->
           <<Op("scalar_mul", "lat_power4", "2"),
             Op("scalar_div", "lat_power4 * 2", "6"),
             Op("scalar_mul", "lat_power6", "2"),
             Op("scalar_div", "lat_power6 * 2", "30"),
             Op("scalar_mul", "lon_power4", "2"),
             Op("scalar_div", "lon_power4 * 2", "6"),
             Op("scalar_mul", "lon_power6", "2"),
             Op("scalar_div", "lon_power6 * 2", "30")>>
      [] k = 7 ->
           <<Op("sub", "lat_squared", "lat_correction1"),
             Op("add", "lat_squared - lat_correction1", "lat_correction2"),
             Op("sub", "lon_squared", "lon_correction1"),
             Op("add", "lon_squared - lon_correction1", "lon_correction2")>>
      [] k = 8 -> <<Op("scalar_div", "cos_sum", "8")>>
      [] k = 9 ->
           <<Op("mul", "lon_term", "avg_cos"),
             Op("scalar_div", "lon_term * avg_cos", "250000")>>
      [] k = 10 -> <<Op("add", "lat_term", "weighted_lon")>>

\* The ciphertext operations of one series of compute_a_term.
series_ops(x) ==
    <<Op("scalar_div", x \o "2", "4"),
      Op("scalar_div", x \o "4", "192"),
      Op("sub", x \o "2 / 4", x \o "4 / 192"),
      Op("scalar_div", x \o "6", "23040"),
      Op("add", "partial sum", x \o "6 / 23040"),
      Op("scalar_div", x \o "8", "5160960"),
      Op("sub", "partial sum", x \o "8 / 5160960"),
      Op("scalar_div", x \o "10", "1486356480"),
      Op("add", "partial sum", x \o "10 / 1486356480")>>

\* The ciphertext operations of the stages of compute_a_term.
a2_ops(k) ==
    CASE k = 1 ->
           <<Op("sub", "p1.lat_rad", "p2.lat_rad"),
             Op("sub", "p1.lon_rad", "p2.lon_rad"),
             Op("sub", "p2.lon_rad", "p1.lon_rad"),
             Op("min", "delta_lon_raw", "delta_lon_alt"),
             Op("mul", "p1.cos_lat", "p2.cos_lat"),
             Op("scalar_div", "p1.cos_lat * p2.cos_lat", "1000000")>>
      [] k = 2 ->
           <<Op("mul", "delta_lat", "delta_lat"),
             Op("mul", "delta_lon", "delta_lon")>>
      [] k = 3 -> <<Op("mul", "lat2", "lat2"), Op("mul", "lon2", "lon2")>>
      [] k = 4 -> <<Op("mul", "lat4", "lat2"), Op("mul", "lon4", "lon2")>>
      [] k = 5 -> <<Op("mul", "lat6", "lat2"), Op("mul", "lon6", "lon2")>>
      [] k = 6 -> <<Op("mul", "lat8", "lat2"), Op("mul", "lon8", "lon2")>>
      [] k = 7 -> series_ops("lat") \o series_ops("lon")
      [] k = 8 ->
           <<Op("mul", "cos_prod", "sin2_half_dlon"),
             Op("add", "sin2_half_dlat", "cos_prod * sin2_half_dlon")>>

\* Operations that leave out stage k when the longitude delta is zero.
StageOps_skip_zero(b, k, l) ==
    IF l.delta_lon.val = U32(0) /\ k > 1 THEN <<>>
    ELSE IF b = "main" THEN hav_ops(k) ELSE a2_ops(k)

\* The operations stage k executes when the locals after it are l: the
\* code has no branch, so they do not depend on l.
StageOps(b, k, l) == IF b = "main" THEN hav_ops(k) ELSE a2_ops(k)

\* x_to_z_value.le(&y_to_z_value) and a_xz.lt(&a_yz).
CompareOp(b) ==
    IF b = "main" THEN Op("le", "x_to_z_value", "y_to_z_value")
    ELSE Op("lt", "a_xz", "a_yz")

\* An evaluation that stores a local into the reference point.
SharedPoints_write_back(cd, l) == [cd EXCEPT ![3].lon = l.delta_lon]

\* The encoded points after a stage with locals l: the evaluations hold
\* shared references (&ClientData) and write none of the fields.
SharedPoints(cd, l) == cd

\* The triples the stepwise evaluation is run on.
CircuitInputs == TestInputs \cup SamePointInputs

\* The state at the call of compare_distances.
CircuitInit ==
    /\ bin \in {"main", "approach2"}
    /\ points \in CircuitInputs
    /\ args = [count |-> 9, tokens |-> points, bad |-> 0]
    /\ pc = "keys"
    /\ client_key \in Keys
    /\ client_data =
           IF bin = "main"
           THEN <<precompute_client_data(points[1], client_key),
                  precompute_client_data(points[2], client_key),
                  precompute_client_data(points[3], client_key)>>
           ELSE <<precompute_client_data_a2(points[1], client_key),
                  precompute_client_data_a2(points[2], client_key),
                  precompute_client_data_a2(points[3], client_key)>>
    /\ x_to_z_value = None
    /\ y_to_z_value = None
    /\ closer_x = None
    /\ is_x_closer = None
    /\ error = NoError
    /\ exit_status = None
    /\ stdout = None
    /\ stage = [e \in Evaluations |-> 0]
    /\ locals = [e \in Evaluations |-> <<>>]
    /\ ops = [xz |-> <<>>, yz |-> <<>>, compare |-> <<>>]
    /\ children = <<>>
    /\ out1 = None
    /\ out2 = None
    /\ table = NoTable

\* The next stage of evaluation e.
EvalStage(e) ==
    /\ pc = "keys"
    /\ stage[e] < StageCount(bin)
    /\ \E l \in {ApplyStage(bin, stage[e] + 1, locals[e],
                            client_data[Operand(e)], client_data[3])} :
           /\ locals' = [locals EXCEPT ![e] = l]
           /\ ops' = [ops EXCEPT ![e] = @ \o StageOps(bin, stage[e] + 1, l)]
           /\ client_data' = SharedPoints(client_data, l)
    /\ stage' = [stage EXCEPT ![e] = @ + 1]
    /\ UNCHANGED <<args, bin, points, pc, client_key, x_to_z_value,
                   y_to_z_value, closer_x, is_x_closer, error, exit_status,
                   stdout, agg_vars>>

EvalXZ == EvalStage("xz")

EvalYZ == EvalStage("yz")

\* The comparison of the two finished terms.
EvalCompare ==
    /\ pc = "keys"
    /\ \A e \in Evaluations : stage[e] = StageCount(bin)
    /\ x_to_z_value' = Term(bin, locals.xz)
    /\ y_to_z_value' = Term(bin, locals.yz)
    /\ closer_x' = IF bin = "main"
                   THEN compare_le(Term(bin, locals.xz), Term(bin, locals.yz))
                   ELSE compare_lt(Term(bin, locals.xz), Term(bin, locals.yz))
    /\ ops' = [ops EXCEPT !.compare = <<CompareOp(bin)>>]
    /\ pc' = "compared"
    /\ UNCHANGED <<args, bin, points, client_key, client_data, is_x_closer,
                   error, exit_status, stdout, stage, locals, agg_vars>>

CircuitNext ==
    \/ EvalXZ
    \/ EvalYZ
    \/ EvalCompare

CircuitSpec == CircuitInit /\ [][CircuitNext]_vars

-----------------------------------------------------------------------------
(* src/bin/aggregate.rs.  A line of a child's stdout is kept as the two    *)
(* parts split_once(" = ") yields (sep is FALSE if the line has no         *)
(* " = "); the table is kept as its cells, without the column padding.     *)

\* Lines per child stdout considered.
MaxLines == 2

\* A timing of 0.000001 s and one of 0.000002 s, in microseconds.
Timings == {1, 2}

Line(l, r) == [sep |-> TRUE, label |-> l, rest |-> r]

PlainLine ==
    [sep |-> FALSE, label |-> "",
     rest |-> "Result (FHE): X is closer to Z than Y"]

\* The text before " = " the children write.
RawLabels == {"CLIENT: TOTAL", "SERVER: total compute "}

\* The text after " = " the children write.
RestTexts == {"0.000001 s", " 0.000002 s", "abc s"}

\* The lines a child may write: a timing line per label, a label written
\* with other values, a value that is no number, a line without the " s"
\* suffix and a line without " = ".
StdoutLines ==
    {Line(l, "0.000001 s") : l \in RawLabels}
        \cup {Line("CLIENT: TOTAL", r) : r \in RestTexts}
        \cup {Line("CLIENT: TOTAL", "0.000001"), PlainLine}

RECURSIVE SeqsUpTo(_, _)
SeqsUpTo(S, n) ==
    IF n = 0 THEN {<<>>}
    ELSE SeqsUpTo(S, n - 1)
             \cup {Append(s, x) : s \in {t \in SeqsUpTo(S, n - 1) :
                                            Len(t) = n - 1}, x \in S}

\* What a child process writes to stdout.
Stdouts == SeqsUpTo(StdoutLines, MaxLines)

\* cmd.output() fails, the child exits unsuccessfully, or it succeeds.
ChildOutcomes ==
    {[kind |-> "spawn_error", stdout |-> <<>>],
     [kind |-> "exit_failure", stdout |-> <<>>]}
        \cup {[kind |-> "success", stdout |-> o] : o \in Stdouts}

\* str::trim on the labels.
Trim(l) ==
    CASE l = "SERVER: total compute " -> "SERVER: total compute"
      [] OTHER -> l

\* rest.strip_suffix(" s")
StripSuffix(r) ==
    CASE r = "0.000001 s" -> "0.000001"
      [] r = " 0.000002 s" -> " 0.000002"
      [] r = "abc s" -> "abc"
      [] OTHER -> None

\* Ok(v) and Err of val_str.trim().parse::<f64>().
Ok(v) == [ok |-> TRUE, val |-> v]

Err == [ok |-> FALSE]

\* val_str.trim().parse::<f64>(), in microseconds.
ParseF64(t) ==
    CASE t = "0.000001" -> Ok(1)
      [] t = " 0.000002" -> Ok(2)
      [] OTHER -> Err

\* format!("{:.6}", v)
FormatSeconds(v) ==
    CASE v = 1 -> "0.000001"
      [] v = 2 -> "0.000002"

\* HashMap::insert keeping the value already stored.
HashMapInsert_keep_first(map, k, v) ==
    [x \in DOMAIN map \cup {k} |-> IF x \in DOMAIN map THEN map[x] ELSE v]

\* HashMap::insert
HashMapInsert(map, k, v) ==
    [x \in DOMAIN map \cup {k} |-> IF x = k THEN v ELSE map[x]]

\* The body of the loop of parse_timings.
ParseLine(map, line) ==
    IF ~line.sep THEN map
    ELSE IF StripSuffix(line.rest) = None THEN map
    ELSE IF ~ParseF64(StripSuffix(line.rest)).ok THEN map
    ELSE HashMapInsert(map, Trim(line.label),
                       ParseF64(StripSuffix(line.rest)).val)

RECURSIVE ParseLines(_, _)
ParseLines(map, lines) ==
    IF lines = <<>> THEN map
    ELSE ParseLines(ParseLine(map, Head(lines)), Tail(lines))

EmptyMap == [x \in {} |-> 0]

parse_timings(stdout_text) == ParseLines(EmptyMap, stdout_text)

\* The labels main lists first.
PreferredLabels ==
    <<"client:step1:precompute+encrypt:Basel",
      "client:step1:precompute+encrypt:Lugano",
      "client:step1:precompute+encrypt:Zurich",
      "server:step3:compute_a_Basel-Zurich",
      "server:step3:compute_a_Lugano-Zurich",
      "server:step2:compute_deltas",
      "server:step3:poly_sin2_half",
      "server:step3:combine_a",
      "server:step4:poly_arcsin_sqrt",
      "server:step5:multiply_radius",
      "server:final:compare",
      "CLIENT: TOTAL",
      "SERVER: TOTAL",
      "CLIENT: decrypt compare bit">>

\* The other labels the children write, in the order of a BTreeSet.
OtherLabels == <<"SERVER: total compute">>

InMap(map, l) == l \in DOMAIN map

\* ordered: the preferred labels, then every other label encountered.
OrderedLabels(map1, map2) ==
    PreferredLabels
        \o SelectSeq(OtherLabels,
                     LAMBDA l : InMap(map1, l) \/ InMap(map2, l))

\* v.map(|v| format!("{:.6}", v)).unwrap_or_else(|| "-".to_string())
Cell(map, l) == IF InMap(map, l) THEN FormatSeconds(map[l]) ELSE "-"

\* if v1.is_some() || v2.is_some()
KeepRow(map1, map2, l) == InMap(map1, l) \/ InMap(map2, l)

\* rows, each already formatted as format_table prints it.
RECURSIVE TableRows(_, _, _)
TableRows(map1, map2, labels) ==
    IF labels = <<>> THEN <<>>
    ELSE (IF KeepRow(map1, map2, Head(labels))
          THEN <<[label |-> Head(labels),
                  a1s |-> Cell(map1, Head(labels)),
                  a2s |-> Cell(map2, Head(labels))]>>
          ELSE <<>>)
             \o TableRows(map1, map2, Tail(labels))

format_table(map1, map2) ==
    [printed |-> TRUE,
     header |-> <<"Step", "Approach1 (s)", "Approach2 (s)">>,
     lines |-> TableRows(map1, map2, OrderedLabels(map1, map2))]

\* The state at the start of main of aggregate.
AggInit ==
    /\ bin = "aggregate"
    /\ args \in {[count |-> n, tokens |-> <<>>, bad |-> 0] :
                    n \in 0 .. MaxArgs}
    /\ points = None
    /\ pc = "start"
    /\ client_key = None
    /\ client_data = <<>>
    /\ x_to_z_value = None
    /\ y_to_z_value = None
    /\ closer_x = None
    /\ is_x_closer = None
    /\ error = NoError
    /\ exit_status = None
    /\ stdout = None
    /\ stage = None
    /\ locals = None
    /\ ops = None
    /\ children = <<>>
    /\ out1 = None
    /\ out2 = None
    /\ table = NoTable

\* if !(args.is_empty() || args.len() == 9) { ..; exit(2) }
AggCheckArgs ==
    /\ pc = "start"
    /\ IF args.count \in {0, 9}
       THEN /\ pc' = "run1"
            /\ UNCHANGED <<error, exit_status>>
       ELSE /\ error' = [kind |-> "usage"]
            /\ exit_status' = 2
            /\ pc' = "failed"
    /\ UNCHANGED <<args, bin, points, client_key, client_data, x_to_z_value,
                   y_to_z_value, closer_x, is_x_closer, stdout, circuit_vars,
                   agg_vars>>

\* A child that failed is noted, and main goes on with an empty output.
RunChild_unchecked(name, outcome) ==
    /\ children' = Append(children, [name |-> name, kind |-> outcome.kind])
    /\ IF name = "approach1"
       THEN /\ out1' = outcome.stdout
            /\ pc' = "run2"
            /\ UNCHANGED out2
       ELSE /\ out2' = outcome.stdout
            /\ pc' = "report"
            /\ UNCHANGED out1
    /\ UNCHANGED <<error, exit_status>>
    /\ UNCHANGED <<args, bin, points, client_key, client_data, x_to_z_value,
                   y_to_z_value, closer_x, is_x_closer, stdout, circuit_vars,
                   table>>

\* let out = run_approach(name, ..)?: the child runs to completion; its
\* stdout is kept, or main returns the error.
RunChild(name, outcome) ==
    /\ children' = Append(children, [name |-> name, kind |-> outcome.kind])
    /\ IF outcome.kind = "success"
       THEN /\ IF name = "approach1"
               THEN /\ out1' = outcome.stdout
                    /\ pc' = "run2"
                    /\ UNCHANGED out2
               ELSE /\ out2' = outcome.stdout
                    /\ pc' = "report"
                    /\ UNCHANGED out1
            /\ UNCHANGED <<error, exit_status>>
       ELSE /\ error' = [kind |-> outcome.kind, child |-> name]
            /\ exit_status' = 1
            /\ pc' = "failed"
            /\ UNCHANGED <<out1, out2>>
    /\ UNCHANGED <<args, bin, points, client_key, client_data, x_to_z_value,
                   y_to_z_value, closer_x, is_x_closer, stdout, circuit_vars,
                   table>>

AggRunApproach1 ==
    /\ pc = "run1"
    /\ \E outcome \in ChildOutcomes : RunChild("approach1", outcome)

AggRunApproach2 ==
    /\ pc = "run2"
    /\ \E outcome \in ChildOutcomes : RunChild("approach2", outcome)

\* parse_timings of both outputs, the rows, the table, Ok(()).
AggReport ==
    /\ pc = "report"
    /\ table' = format_table(parse_timings(out1), parse_timings(out2))
    /\ exit_status' = 0
    /\ pc' = "done"
    /\ UNCHANGED <<args, bin, points, client_key, client_data, x_to_z_value,
                   y_to_z_value, closer_x, is_x_closer, error, stdout,
                   circuit_vars, children, out1, out2>>

AggNext ==
    \/ AggCheckArgs
    \/ AggRunApproach1
    \/ AggRunApproach2
    \/ AggReport

AggSpec == AggInit /\ [][AggNext]_vars

-----------------------------------------------------------------------------
(* Properties.                                                             *)

\* The run of binary b on the triple t has decrypted its result.
Done(b, t) == pc = "done" /\ bin = b /\ points = t

\* Value of a u32 below 2^31.
ToNat(v) == v[1] * Limb + v[2]

\* C1: main.rs on Basel, Lugano, Zurich decrypts to true (Basel is closer
\* to Zurich than Lugano).
C1_BaselCloserMain ==
    Done("main", test_swiss_cities) => is_x_closer = TRUE

\* C2: approach2.rs on its built-in points Basel, Lugano, Zurich decrypts
\* to true (Basel is closer to Zurich than Lugano).
C2_BaselCloserApproach2 ==
    Done("approach2", test_swiss_cities) => is_x_closer = TRUE

\* C3: main.rs on Tokyo, NewYork, London decrypts to false (NewYork is
\* closer to London than Tokyo).
C3_NewYorkCloser ==
    Done("main", test_far_points) => is_x_closer = FALSE

C3_Witness ==
    /\ Done("main", test_far_points)
    /\ Lt32(y_to_z_value.val, x_to_z_value.val)
    /\ is_x_closer = FALSE

\* C4: precision floor.  In main.rs, when X, Y, Z share one coordinate, X is
\* 0.0001 degree from Z and Y is 0.0002 to 0.0005 degree from Z in the
\* other coordinate, the result decrypts to true (X is closer).
C4_PrecisionFloor ==
    (/\ pc = "done"
     /\ bin = "main"
     /\ points \in SameLatitudeInputs \cup SameLongitudeInputs)
        => is_x_closer = TRUE

\* C5: antimeridian.  main.rs on Tokyo, Hawaii and the reference (0, 180)
\* decrypts to false (Hawaii is closer to the reference than Tokyo).
C5_HawaiiCloser ==
    Done("main", test_date_line_crossing) => is_x_closer = FALSE

C5_Witness ==
    /\ Done("main", test_date_line_crossing)
    /\ client_data[2].lon.val = U32(202141700)
    /\ Lt32(y_to_z_value.val, x_to_z_value.val)
    /\ is_x_closer = FALSE

\* C6: the term of main.rs is monotonic in latitude separation.  For X, Y,
\* Z on one meridian, if |lat X - lat Z| < |lat Y - lat Z| then the term of
\* (X, Z) is at most the term of (Y, Z) and the result is true.
C6_LatitudeMonotonic ==
    (/\ pc = "done"
     /\ bin = "main"
     /\ points[1].lon = points[3].lon
     /\ points[2].lon = points[3].lon
     /\ Abs(points[1].lat - points[3].lat)
            < Abs(points[2].lat - points[3].lat))
        => /\ Le32(x_to_z_value.val, y_to_z_value.val)
           /\ is_x_closer = TRUE

\* Shorter-way-around separation of two longitudes, in 0.0001 degree.
CircularSeparation(a, b) ==
    IF Abs(a - b) <= 3600000 - Abs(a - b)
    THEN Abs(a - b) ELSE 3600000 - Abs(a - b)

\* C7: the term of main.rs is monotonic in circular longitude separation.
\* For X, Y, Z on one parallel, if X is nearer to Z around the circle than
\* Y then the term of (X, Z) is at most the term of (Y, Z) and the result
\* is true.
C7_LongitudeMonotonic ==
    (/\ pc = "done"
     /\ bin = "main"
     /\ points[1].lat = points[3].lat
     /\ points[2].lat = points[3].lat
     /\ CircularSeparation(points[1].lon, points[3].lon)
            < CircularSeparation(points[2].lon, points[3].lon))
        => /\ Le32(x_to_z_value.val, y_to_z_value.val)
           /\ is_x_closer = TRUE

\* |p - q| of two encoded values.
AbsDiff32(p, q) == U32(Abs(ToNat(p) - ToNat(q)))

\* The latitude and longitude deltas of a pipeline, before any folding.
LatDelta(p, q) ==
    IF bin = "main" THEN delta_lat_main(p, q).val ELSE delta_lat_a2(p, q).val

LonDelta(p, q) ==
    IF bin = "main" THEN raw_lon_diff_main(p, q).val
    ELSE delta_lon_a2(p, q).val

\* C8: delta symmetry.  In both pipelines the latitude delta and the
\* longitude delta of two encoded points are the minimum of the two modular
\* subtractions: delta(p, q) = delta(q, p) = |p - q|.
C8_DeltaSymmetry ==
    Len(client_data) = 3 =>
        \A i \in 1 .. 2 :
            LET p == client_data[i]
                q == client_data[3]
            IN  /\ LatDelta(p, q) = LatDelta(q, p)
                /\ LatDelta(p, q) = AbsDiff32(p.lat.val, q.lat.val)
                /\ LonDelta(p, q) = LonDelta(q, p)
                /\ LonDelta(p, q) = AbsDiff32(p.lon.val, q.lon.val)

\* One full turn in the units of the encoding.
FullTurn == IF bin = "main" THEN 360 * SCALE_FACTOR ELSE 6283185

\* A signed longitude in the units of the encoding, not normalised.
TrueLonScaled(k) ==
    IF bin = "main" THEN DegreesScaled(k) ELSE RadiansScaled(k)

\* min(|d|, fullTurn - |d|) for the true difference d of two longitudes.
FoldedSeparation(a, b) ==
    LET d == Abs(TrueLonScaled(a) - TrueLonScaled(b))
    IN  IF d <= FullTurn - d THEN d ELSE FullTurn - d

\* The longitude delta that enters the polynomial.
PolynomialLonDelta(p, q) ==
    IF bin = "main" THEN delta_lon_main(p, q).val ELSE delta_lon_a2(p, q).val

\* C9: longitude wraparound folding.  In each pipeline the longitude delta
\* fed to the polynomial equals min(|d|, fullTurn - |d|), d the true
\* difference of the two longitudes in the units of the encoding.
C9_LongitudeFolding ==
    Len(client_data) = 3 =>
        \A i \in 1 .. 2 :
            PolynomialLonDelta(client_data[i], client_data[3])
                = U32(FoldedSeparation(points[i].lon, points[3].lon))

\* No ciphertext multiplication of calculate_haversine_distance_squared
\* wraps modulo 2^32.
NoWrapMain(p1, p2) ==
    LET l == haversine_locals(p1, p2)
    IN  /\ ~MulWraps(l.lat_scaled.val, l.lat_scaled.val)
        /\ ~MulWraps(l.lon_scaled.val, l.lon_scaled.val)
        /\ ~MulWraps(l.lat_squared.val, l.lat_squared.val)
        /\ ~MulWraps(l.lon_squared.val, l.lon_squared.val)
        /\ ~MulWraps(l.lat_power4.val, l.lat_squared.val)
        /\ ~MulWraps(l.lon_power4.val, l.lon_squared.val)
        /\ ~MulWraps(l.lat_power4.val, U32(2))
        /\ ~MulWraps(l.lat_power6.val, U32(2))
        /\ ~MulWraps(l.lon_power4.val, U32(2))
        /\ ~MulWraps(l.lon_power6.val, U32(2))
        /\ ~MulWraps(l.lon_term.val, l.avg_cos.val)

\* No ciphertext multiplication of compute_a_term wraps modulo 2^32.
NoWrapA2(p1, p2) ==
    LET l == a_term_locals(p1, p2)
    IN  /\ ~MulWraps(l.delta_lat.val, l.delta_lat.val)
        /\ ~MulWraps(l.lat2.val, l.lat2.val)
        /\ ~MulWraps(l.lat4.val, l.lat2.val)
        /\ ~MulWraps(l.lat6.val, l.lat2.val)
        /\ ~MulWraps(l.lat8.val, l.lat2.val)
        /\ ~MulWraps(l.delta_lon.val, l.delta_lon.val)
        /\ ~MulWraps(l.lon2.val, l.lon2.val)
        /\ ~MulWraps(l.lon4.val, l.lon2.val)
        /\ ~MulWraps(l.lon6.val, l.lon2.val)
        /\ ~MulWraps(l.lon8.val, l.lon2.val)
        /\ ~MulWraps(p1.cos_lat.val, p2.cos_lat.val)
        /\ ~MulWraps(l.cos_prod.val, l.sin2_half_dlon.val)

\* C10: no overflow.  For the deltas of valid inputs no ciphertext
\* multiplication wraps modulo 2^32, in the power ladder or elsewhere, in
\* main.rs and in approach2.rs.
C10_NoOverflow ==
    pc \in {"compared", "done"} =>
        \A i \in 1 .. 2 :
            IF bin = "main"
            THEN NoWrapMain(client_data[i], client_data[3])
            ELSE NoWrapA2(client_data[i], client_data[3])

\* The subtraction minuend - subtrahend of two u32 values does not wrap.
NoBorrow(minuend, subtrahend) == Le32(subtrahend.val, minuend.val)

\* The subtractions of lat_term and lon_term in main.rs.
NoBorrowMain(p1, p2) ==
    LET l == haversine_locals(p1, p2)
    IN  /\ NoBorrow(l.lat_squared, l.lat_correction1)
        /\ NoBorrow(l.lon_squared, l.lon_correction1)

\* The two subtractions of one series of approach2.rs, left to right.
NoBorrowSeries(x2, x4, x6, x8) ==
    /\ NoBorrow(FheDivScalar(x2, 4), FheDivScalar(x4, 192))
    /\ NoBorrow(FheAdd(FheSub(FheDivScalar(x2, 4), FheDivScalar(x4, 192)),
                       FheDivScalar(x6, 23040)),
                FheDivScalar(x8, 5160960))

NoBorrowA2(p1, p2) ==
    LET l == a_term_locals(p1, p2)
    IN  /\ NoBorrowSeries(l.lat2, l.lat4, l.lat6, l.lat8)
        /\ NoBorrowSeries(l.lon2, l.lon4, l.lon6, l.lon8)

\* C11: partial sums of the alternating series never go negative.  Every
\* unsigned subtraction of the series, evaluated left to right, has a
\* minuend greater than or equal to its subtrahend, in main.rs and in
\* approach2.rs.
C11_NoNegativePartialSum ==
    pc \in {"compared", "done"} =>
        \A i \in 1 .. 2 :
            IF bin = "main"
            THEN NoBorrowMain(client_data[i], client_data[3])
            ELSE NoBorrowA2(client_data[i], client_data[3])

\* Scale exponents: the power of SCALE_FACTOR a value carries.  An encoded
\* input and a public constant built from SCALE_FACTOR have exponent 1, a
\* product adds the exponents, a division by SCALE_FACTOR (or SCALE_FACTOR
\* / 4) subtracts 1, a multiplication or division by any other public
\* constant keeps the exponent, and a sum, difference or minimum is given
\* the exponent of its left operand.
ScaleEncoded == 1

ScaleMul(a, b) == a + b

ScaleDivM(a) == a - 1

ScaleSum(a, b) == a

\* An addition, subtraction, minimum or comparison and the scale exponents
\* of its two operands.
Operands(n, a, b) == [op |-> n, left |-> a, right |-> b]

\* The additive operations of calculate_haversine_distance_squared and of
\* compare_distances in main.rs, in source order.
ScaleOperandsMain ==
    LET lat          == ScaleEncoded
        lon          == ScaleEncoded
        cos_lat      == ScaleEncoded
        full_circle  == ScaleEncoded
        delta_lat    == ScaleSum(ScaleSum(lat, lat), ScaleSum(lat, lat))
        raw_lon_diff == ScaleSum(ScaleSum(lon, lon), ScaleSum(lon, lon))
        wrapped      == ScaleSum(full_circle, raw_lon_diff)
        delta_lon    == ScaleSum(raw_lon_diff, wrapped)
        lat_scaled   == delta_lat
        lon_scaled   == delta_lon
        lat_squared  == ScaleMul(lat_scaled, lat_scaled)
        lon_squared  == ScaleMul(lon_scaled, lon_scaled)
        lat_power4   == ScaleMul(lat_squared, lat_squared)
        lon_power4   == ScaleMul(lon_squared, lon_squared)
        lat_power6   == ScaleMul(lat_power4, lat_squared)
        lon_power6   == ScaleMul(lon_power4, lon_squared)
        lat_diff     == ScaleSum(lat_squared, lat_power4)
        lon_diff     == ScaleSum(lon_squared, lon_power4)
        lat_term     == ScaleSum(lat_diff, lat_power6)
        lon_term     == ScaleSum(lon_diff, lon_power6)
        cos_sum      == ScaleSum(cos_lat, cos_lat)
        avg_cos      == cos_sum
        weighted_lon == ScaleDivM(ScaleMul(lon_term, avg_cos))
        result       == ScaleSum(lat_term, weighted_lon)
    IN  {Operands("point1.lat - point2.lat", lat, lat),
         Operands("delta_lat min", ScaleSum(lat, lat), ScaleSum(lat, lat)),
         Operands("point1.lon - point2.lon", lon, lon),
         Operands("raw_lon_diff min", ScaleSum(lon, lon), ScaleSum(lon, lon)),
         Operands("full_circle - raw_lon_diff", full_circle, raw_lon_diff),
         Operands("delta_lon min", raw_lon_diff, wrapped),
         Operands("lat_squared - lat_correction1", lat_squared, lat_power4),
         Operands("+ lat_correction2", lat_diff, lat_power6),
         Operands("lon_squared - lon_correction1", lon_squared, lon_power4),
         Operands("+ lon_correction2", lon_diff, lon_power6),
         Operands("point1.cos_lat + point2.cos_lat", cos_lat, cos_lat),
         Operands("lat_term + weighted_lon", lat_term, weighted_lon),
         Operands("x_to_z_value.le(y_to_z_value)", result, result)}

\* The additive operations of compute_a_term and of compare_distances in
\* approach2.rs, in source order.
ScaleOperandsA2 ==
    LET lat_rad   == ScaleEncoded
        lon_rad   == ScaleEncoded
        cos_lat   == ScaleEncoded
        delta_lat == ScaleSum(lat_rad, lat_rad)
        delta_lon == ScaleSum(ScaleSum(lon_rad, lon_rad),
                              ScaleSum(lon_rad, lon_rad))
        x2        == ScaleMul(delta_lat, delta_lat)
        x4        == ScaleMul(x2, x2)
        x6        == ScaleMul(x4, x2)
        x8        == ScaleMul(x6, x2)
        x10       == ScaleMul(x8, x2)
        sum4      == ScaleSum(x2, x4)
        sum6      == ScaleSum(sum4, x6)
        sum8      == ScaleSum(sum6, x8)
        sin2_x    == ScaleSum(sum8, x10)
        cos_prod  == ScaleDivM(ScaleMul(cos_lat, cos_lat))
        weighted  == ScaleMul(cos_prod, sin2_x)
        a         == ScaleSum(sin2_x, weighted)
    IN  {Operands("p1.lat_rad - p2.lat_rad", lat_rad, lat_rad),
         Operands("p1.lon_rad - p2.lon_rad", lon_rad, lon_rad),
         Operands("delta_lon_raw.min(delta_lon_alt)",
                  ScaleSum(lon_rad, lon_rad), ScaleSum(lon_rad, lon_rad)),
         Operands("x2 / 4 - x4 / 192", x2, x4),
         Operands("+ x6 / 23040", sum4, x6),
         Operands("- x8 / 5160960", sum6, x8),
         Operands("+ x10 / 1486356480", sum8, x10),
         Operands("sin2_half_dlat + cos_prod * sin2_half_dlon",
                  sin2_x, weighted),
         Operands("a_xz.lt(a_yz)", a, a)}

\* C12: single fixed-point scale.  Every pair of operands that the circuit
\* of the running binary adds, subtracts, takes the minimum of or compares
\* carries the same scale exponent; in particular the series terms summed
\* into sin^2(x/2) and the two summands of the term a.
C12_SingleScale ==
    pc \in {"compared", "done"} =>
        \A o \in (IF bin = "main" THEN ScaleOperandsMain
                  ELSE ScaleOperandsA2) :
            o.left = o.right

\* floor(c1 * c2 / SCALE_FACTOR) over the unbounded integers, for c1 and
\* c2 up to SCALE_FACTOR, from the base-1000 digits of the factors.
ExactCosProd(c1, c2) ==
    LET a1 == c1 \div 1000
        b1 == c1 % 1000
        a2 == c2 \div 1000
        b2 == c2 % 1000
    IN  a1 * a2 + ((a1 * b2 + a2 * b1) * 1000 + b1 * b2) \div SCALE_FACTOR

\* C13: cosine product rescaling.  In compute_a_term of approach2.rs
\* cos_prod equals floor(c1 * c2 / SCALE_FACTOR) over the unbounded
\* integers for the encoded cosines c1, c2 of the two points.
C13_CosProdExact ==
    (bin = "approach2" /\ pc \in {"compared", "done"}) =>
        \A i \in 1 .. 2 :
            a_term_locals(client_data[i], client_data[3]).cos_prod.val
                = U32(ExactCosProd(ToNat(client_data[i].cos_lat.val),
                                   ToNat(client_data[3].cos_lat.val)))

\* A signed latitude in the units of the encoding (1 / SCALE_FACTOR degree
\* in main.rs, 1 / SCALE_FACTOR radian in approach2.rs).
TrueLatScaled(k) ==
    IF bin = "main" THEN DegreesScaled(k) ELSE RadiansScaled(k)

\* Decoding: the encoded integer read back as a signed angle in units of
\* 1 / SCALE_FACTOR.  main.rs added 360 degrees to a negative longitude,
\* which decoding subtracts again; approach2.rs has no normalisation.
DecodeLat(v) == ToNat(v)

DecodeLon(v) ==
    IF bin = "main" /\ ToNat(v) > 180 * SCALE_FACTOR
    THEN ToNat(v) - 360 * SCALE_FACTOR
    ELSE ToNat(v)

\* C14: encoding round-trip.  Decoding the latitude and the longitude that
\* precompute_client_data encoded returns the original angle to within
\* one unit of 1 / SCALE_FACTOR, in main.rs (scaled degrees) and in
\* approach2.rs (scaled radians).
C14_EncodingRoundTrip ==
    \A i \in 1 .. Len(client_data) :
        /\ Abs(DecodeLat(client_data[i].lat.val)
                   - TrueLatScaled(points[i].lat)) <= 1
        /\ Abs(DecodeLon(client_data[i].lon.val)
                   - TrueLonScaled(points[i].lon)) <= 1

\* C15: the comparator is a strict less-than.  The decrypted result is
\* true if and only if the term of (X, Z) is strictly less than the term
\* of (Y, Z); for X and Y the same point the result is false.  Required of
\* main.rs and of approach2.rs.
C15_StrictLessThan ==
    pc = "done" =>
        (is_x_closer = TRUE <=> Lt32(x_to_z_value.val, y_to_z_value.val))

\* The boolean a whole run of binary b on the triple t decrypts when its
\* freshly generated key is k.
ResultUnderKey(b, t, k) ==
    IF b = "main"
    THEN Decrypt(compare_distances(precompute_client_data(t[1], k),
                                   precompute_client_data(t[2], k),
                                   precompute_client_data(t[3], k)).result,
                 k)
    ELSE Decrypt(compare_distances_a2(precompute_client_data_a2(t[1], k),
                                      precompute_client_data_a2(t[2], k),
                                      precompute_client_data_a2(t[3], k))
                     .result,
                 k)

C19_EncryptionFailureFatal ==
    error.kind = "encrypt" =>
        /\ pc = "failed"
        /\ exit_status = 1
        /\ Len(client_data) = error.point - 1
        /\ x_to_z_value = None
        /\ y_to_z_value = None
        /\ closer_x = None
        /\ is_x_closer = None
        /\ stdout = None

C19_Witness ==
    /\ pc = "failed"
    /\ error = [kind |-> "encrypt", point |-> 2, call |-> 3]
    /\ Len(client_data) = 1
    /\ exit_status = 1

\* C20: argument count.  A binary given a number of positional arguments
\* other than zero or nine never runs the comparison and never exits with
\* status zero.
C20_ArgumentCount ==
    args.count \notin {0, 9} => pc \notin {"compared", "done"}

\* Every local of one term evaluation of binary b on the first two of the
\* built-in points.
ReferenceLocals(b) ==
    IF b = "main"
    THEN haversine_locals(precompute_client_data(Basel, 1),
                          precompute_client_data(Zurich, 1))
    ELSE a_term_locals(precompute_client_data_a2(Basel, 1),
                       precompute_client_data_a2(Zurich, 1))

\* The operations of the first n stages when the locals are l.
RECURSIVE OpsUpTo(_, _, _)
OpsUpTo(b, n, l) ==
    IF n = 0 THEN <<>> ELSE OpsUpTo(b, n - 1, l) \o StageOps(b, n, l)

EncodedPoints ==
    IF bin = "main"
    THEN [i \in 1 .. 3 |-> precompute_client_data(points[i], client_key)]
    ELSE [i \in 1 .. 3 |-> precompute_client_data_a2(points[i], client_key)]

\* What compare_distances returns when it evaluates (X, Z), then (Y, Z),
\* then compares.
Sequential ==
    IF bin = "main"
    THEN compare_distances(EncodedPoints[1], EncodedPoints[2],
                           EncodedPoints[3])
    ELSE compare_distances_a2(EncodedPoints[1], EncodedPoints[2],
                              EncodedPoints[3])

\* C18: independence of the two term computations.  In whatever order the
\* stages of the two evaluations are taken, a finished evaluation holds
\* the term of the sequential order, the comparison gives the sequential
\* result, and the three encoded points are never modified.
C18_Independence ==
    /\ client_data = EncodedPoints
    /\ stage.xz = StageCount(bin) =>
           Term(bin, locals.xz) = Sequential.x_to_z_value
    /\ stage.yz = StageCount(bin) =>
           Term(bin, locals.yz) = Sequential.y_to_z_value
    /\ pc = "compared" =>
           /\ x_to_z_value = Sequential.x_to_z_value
           /\ y_to_z_value = Sequential.y_to_z_value
           /\ closer_x = Sequential.result

\* The (Y, Z) term is finished before the (X, Z) evaluation has started.
C18_Witness ==
    /\ stage.xz = 0
    /\ stage.yz = StageCount(bin)
    /\ Term(bin, locals.yz) = Sequential.y_to_z_value
    /\ Sequential.x_to_z_value # Sequential.y_to_z_value

\* C21: argument errors precede encryption.  When a coordinate token of
\* the nine arguments has failed to parse, main has returned the error
\* with a nonzero status and no key has been generated and no point
\* encrypted, in main.rs and in approach2.rs.
C21_ArgumentErrorsFirst ==
    error.kind = "parse" =>
        /\ pc = "failed"
        /\ exit_status = 1
        /\ client_key = None
        /\ client_data = <<>>
        /\ points = None

C21_Witness ==
    /\ pc = "failed"
    /\ args.count = 9
    /\ args.bad = 4
    /\ error = [kind |-> "parse", token |-> 4]
    /\ client_key = None
    /\ client_data = <<>>

\* The line is a parsable "<label> = <seconds> s" line for label l.
ParsableFor(line, l) ==
    /\ line.sep
    /\ Trim(line.label) = l
    /\ StripSuffix(line.rest) # None
    /\ ParseF64(StripSuffix(line.rest)).ok

\* The positions of the parsable lines for label l in a child's stdout.
Emissions(out, l) == {i \in 1 .. Len(out) : ParsableFor(out[i], l)}

\* The value of the last parsable line for label l.
LastValue(out, l) ==
    LET last == CHOOSE i \in Emissions(out, l) :
                    \A j \in Emissions(out, l) : j <= i
    IN  ParseF64(StripSuffix(out[last].rest)).val

\* The column of an approach in the row of label l.
ExpectedCell(out, l) ==
    IF Emissions(out, l) = {} THEN "-"
    ELSE FormatSeconds(LastValue(out, l))

\* Every label a line can carry.
AllLabels == {Trim(l) : l \in RawLabels}

\* C22: aggregation table.  A label is a row of the printed table if and
\* only if at least one approach emitted a parsable "<label> = <seconds>
\* s" line for it (and then it is one row only); the column of an approach
\* that did not emit it shows "-", the column of one that did shows the
\* value of its last such line.
C22_AggregationTable ==
    table.printed =>
        /\ \A l \in AllLabels :
               (\E i \in 1 .. Len(table.lines) : table.lines[i].label = l)
                   <=> (Emissions(out1, l) # {} \/ Emissions(out2, l) # {})
        /\ \A i \in 1 .. Len(table.lines) :
               /\ table.lines[i].label \in AllLabels
               /\ table.lines[i].a1s = ExpectedCell(out1, table.lines[i].label)
               /\ table.lines[i].a2s = ExpectedCell(out2, table.lines[i].label)
               /\ \A j \in 1 .. Len(table.lines) :
                      table.lines[j].label = table.lines[i].label => j = i

\* approach1 emitted one label twice and approach2 did not emit it; the
\* other label came from approach2 only.
C22_Witness ==
    /\ table.printed
    /\ out1 = <<Line("CLIENT: TOTAL", "0.000001 s"),
                Line("CLIENT: TOTAL", " 0.000002 s")>>
    /\ out2 = <<Line("SERVER: total compute ", "0.000001 s"), PlainLine>>
    /\ table.lines =
           <<[label |-> "CLIENT: TOTAL", a1s |-> "0.000002", a2s |-> "-"],
             [label |-> "SERVER: total compute", a1s |-> "-",
              a2s |-> "0.000001"]>>

\* The names of the children launched so far, in order.
Launched == [i \in 1 .. Len(children) |-> children[i].name]

\* A child failed to start or exited unsuccessfully.
ChildFailed(i) == children[i].kind # "success"

\* C26: aggregator failure ordering.  With an argument count other than 0
\* or 9 aggregate exits with status 2 and launches no child.  Otherwise
\* approach1 has run to completion before approach2 starts; approach2 is
\* launched only after approach1 succeeded; and once a child has failed,
\* main has returned an error, no further child is run and no table is
\* printed.
C26_AggregatorFailureOrdering ==
    /\ args.count \notin {0, 9} =>
           /\ children = <<>>
           /\ ~table.printed
           /\ pc \in {"start", "failed"}
           /\ pc = "failed" => exit_status = 2
    /\ Launched \in {<<>>, <<"approach1">>, <<"approach1", "approach2">>}
    /\ Len(children) = 2 => ~ChildFailed(1)
    /\ \A i \in 1 .. Len(children) :
           ChildFailed(i) =>
               /\ i = Len(children)
               /\ pc = "failed"
               /\ exit_status = 1
               /\ ~table.printed
    /\ table.printed =>
           /\ Len(children) = 2
           /\ ~ChildFailed(1)
           /\ ~ChildFailed(2)

\* approach1 exited unsuccessfully: approach2 was never run.
C26_Witness ==
    /\ args.count = 9
    /\ children = <<[name |-> "approach1", kind |-> "exit_failure"]>>
    /\ pc = "failed"
    /\ exit_status = 1
    /\ ~table.printed

\* C23: the negative-latitude case asserted by the test.  For X = Rio
\* (-22.9068, -43.1729), Y = Cairo (30.0444, 31.2357) and Z = (0, 0) the
\* compare_distances of main.rs decrypts to true: Rio is reported as closer
\* to the reference than Cairo.
C23_NegativeLatitudeRioCloser ==
    Done("main", test_negative_latitude) => is_x_closer = TRUE

\* Rio's latitude is encoded as 0, and its term is not above Cairo's.
C23_Witness ==
    /\ Done("main", test_negative_latitude)
    /\ client_data[1].lat.val = U32(0)
    /\ Le32(x_to_z_value.val, y_to_z_value.val)
    /\ is_x_closer = TRUE

\* X and Y are mirror images across the equator and Z lies on the equator.
HemisphereMirror(t) ==
    /\ t[1].lat > 0
    /\ t[2].lat = -t[1].lat
    /\ t[2].lon = t[1].lon
    /\ t[3].lat = 0

\* C24: hemisphere mirror symmetry.  For a reference Z on the equator and a
\* latitude phi in (0, 90], the pipeline computes equal closeness terms for
\* ((phi, lon), Z) and ((-phi, lon), Z); in particular for the North Pole
\* and the South Pole against Z = (0, 0).
C24_HemisphereMirrorSymmetry ==
    (pc = "done" /\ HemisphereMirror(points)) =>
        x_to_z_value.val = y_to_z_value.val

\* The deltas output by the delta step of a pipeline.
DeltaStep(p, q) ==
    IF bin = "main" THEN hav_deltas(p, q) ELSE a2_deltas(p, q)

\* M / 2 with M = SCALE_FACTOR.
HalfScale == U32(SCALE_FACTOR \div 2)

\* C25: delta range.  In both pipelines the latitude delta and the
\* longitude delta output by the delta step lie in [0, SCALE_FACTOR / 2],
\* i.e. are at most 500000.
C25_DeltaRange ==
    Len(client_data) = 3 =>
        \A i \in 1 .. 2 :
            /\ Le32(DeltaStep(client_data[i], client_data[3]).delta_lat.val,
                    HalfScale)
            /\ Le32(DeltaStep(client_data[i], client_data[3]).delta_lon.val,
                    HalfScale)

\* No multiplication of the power ladder and of the corrections of a scaled
\* delta x wraps modulo 2^32.
NoWrapPolynomial(x, x2, x4, x6) ==
    /\ ~MulWraps(x, x)
    /\ ~MulWraps(x2, x2)
    /\ ~MulWraps(x4, x2)
    /\ ~MulWraps(x4, U32(2))
    /\ ~MulWraps(x6, U32(2))

\* x^2 - (2/3) x^4 + (2/15) x^6 with truncating division, as the comments
\* of calculate_haversine_distance_squared state it.
CommentPolynomial(x2, x4, x6) ==
    Add32(Sub32(x2, Div32(Mul32(x4, U32(2)), 3)),
          Div32(Mul32(x6, U32(2)), 15))

C28_ATermSymmetry ==
    (bin = "approach2" /\ Len(client_data) = 3) =>
        \A i, j \in 1 .. 3 :
            compute_a_term(client_data[i], client_data[j]).val
                = compute_a_term(client_data[j], client_data[i]).val

\* Lugano and Zurich: the two latitude deltas differ (one of them wraps),
\* the two a terms are equal.
C28_Witness ==
    /\ bin = "approach2"
    /\ Len(client_data) = 3
    /\ points = test_swiss_cities
    /\ delta_lat_a2(client_data[2], client_data[3]).val
           = Sub32(U32(0), U32(23966))
    /\ delta_lat_a2(client_data[3], client_data[2]).val = U32(23966)
    /\ compute_a_term(client_data[2], client_data[3]).val = U32(348263077)
    /\ compute_a_term(client_data[3], client_data[2]).val = U32(348263077)

\* Other values of the fields the circuits do not read: an encrypted
\* (sin(lat) + 1) * SCALE_FACTOR / 2 and a name.
UnusedFieldValues ==
    {[sin_lat |-> U32(0), name |-> "A"],
     [sin_lat |-> U32(SCALE_FACTOR), name |-> "B"]}

\* The encoded point p with other sin_lat and name fields.
WithUnused(p, u) ==
    [p EXCEPT !.sin_lat = Encrypt(u.sin_lat, p.lat.key), !.name = u.name]

\* compare_distances of the pipeline of the run.
CompareDistances(px, py, pz) ==
    IF bin = "main" THEN compare_distances(px, py, pz).result
    ELSE compare_distances_a2(px, py, pz).result

\* C29: unused inputs do not influence the result.  For two sets of encoded
\* points that differ only in the sin_lat and name fields, compare_distances
\* returns the same boolean, in main.rs and in approach2.rs.
C29_UnusedInputs ==
    Len(client_data) = 3 =>
        \A ux, uy, uz \in UnusedFieldValues :
            CompareDistances(WithUnused(client_data[1], ux),
                             WithUnused(client_data[2], uy),
                             WithUnused(client_data[3], uz))
                = CompareDistances(client_data[1], client_data[2],
                                   client_data[3])

\* A finished run whose points differ from the alternative ones in sin_lat
\* and name, with the result of the alternative points.
C29_Witness ==
    /\ pc = "done"
    /\ points = test_swiss_cities
    /\ client_data[1].sin_lat.val # U32(0)
    /\ client_data[1].name = "Basel"
    /\ Decrypt(CompareDistances(
                   WithUnused(client_data[1], [sin_lat |-> U32(0),
                                               name |-> "A"]),
                   WithUnused(client_data[2], [sin_lat |-> U32(SCALE_FACTOR),
                                               name |-> "B"]),
                   WithUnused(client_data[3], [sin_lat |-> U32(0),
                                               name |-> "A"])),
               client_key) = is_x_closer

=============================================================================
